---- MODULE Spec2Model ----
(***************************************************************************)
(* Model of the channel liveness checker (analizarCanales): the catalog    *)
(* canales.json is read, one probe per channel is launched concurrently    *)
(* (canales.map of an async callback), Promise.all joins the probes, and   *)
(* the catalog, the down-log and the playlist are written.                 *)
(*                                                                         *)
(* Strings that the code inspects character by character (response         *)
(* bodies) are sequences of one-character strings.  The timestamp of a     *)
(* down-log entry and of the log header (new Date()) is not modelled.      *)
(***************************************************************************)
EXTENDS Integers, Sequences, FiniteSets, TLC

\* ------------------------------------------------------------------ bounds
\* Largest number of entries of the catalog array.
MaxChannels == 2

\* Largest number of consecutive runs of the program.
MaxRuns == 2

MIN_CONTENT_LENGTH == 30

\* ------------------------------------------------- strings as char sequences
Whitespace == {" ", "\t", "\n", "\r"}

Magic == <<"#", "E", "X", "T", "M", "3", "U">>

Rep(c, n) == [k \in 1..n |-> c]

RECURSIVE TrimStart(_)
TrimStart(s) ==
  IF s = <<>> THEN <<>>
  ELSE IF Head(s) \in Whitespace THEN TrimStart(Tail(s)) ELSE s

RECURSIVE TrimEnd(_)
TrimEnd(s) ==
  IF s = <<>> THEN <<>>
  ELSE IF s[Len(s)] \in Whitespace THEN TrimEnd(SubSeq(s, 1, Len(s) - 1)) ELSE s

\* String.prototype.trim
Trim(s) == TrimEnd(TrimStart(s))

\* String.prototype.split("\n"): the pieces between line feeds; "" gives [""].
RECURSIVE SplitFrom(_, _)
SplitFrom(s, cur) ==
  IF s = <<>> THEN <<cur>>
  ELSE IF Head(s) = "\n" THEN <<cur>> \o SplitFrom(Tail(s), <<>>)
  ELSE SplitFrom(Tail(s), Append(cur, Head(s)))

Split(s) == SplitFrom(s, <<>>)

\* ------------------------------------------------------------- catalog data
\* Values of the url field of a channel record.  UrlNull stands for a null or
\* absent url, UrlNumber for a url that is not a string (the number 42).
UrlNull == "<null>"
UrlNumber == "<number 42>"
UrlNotAUrl == "not a url"
UrlGood == "http://good/stream.m3u8"

Urls == {"", UrlNull, UrlNumber, UrlNotAUrl, UrlGood}

\* Values of the active field of an input record: absent, or the flag a
\* previous run stored.
ActiveValues == {"absent", "true", "false"}

Ids == 1..MaxChannels

TitleOf(id) == <<"A", "B", "C", "D", "E">>[id]

\* The icon field; the first channel has none.
IconOf(id) == <<"absent", "b.png", "c.png", "d.png", "e.png">>[id]

\* An element of the catalog array: a channel record, or JSON null.
NullItem == [type |-> "null", id |-> 0, title |-> "", icon |-> "absent",
             url |-> UrlNull, active |-> "absent"]

Canal(id, url, active) ==
  [type |-> "object", id |-> id, title |-> TitleOf(id), icon |-> IconOf(id),
   url |-> url, active |-> active]

Records == {Canal(id, u, a) : id \in Ids, u \in Urls, a \in ActiveValues}

\* The identifiers of a catalog of n channels: ascending or descending along
\* the array.
IdAt(order, n, i) == IF order = "asc" THEN i ELSE n + 1 - i

ItemsAt(id) == {NullItem} \cup {Canal(id, u, a) : u \in Urls, a \in ActiveValues}

CatalogsOf(n, order) ==
  {items \in [1..n -> Records \cup {NullItem}] :
     \A i \in 1..n : items[i] \in ItemsAt(IdAt(order, n, i))}

Catalogs ==
  UNION {CatalogsOf(n, order) : n \in 0..MaxChannels, order \in {"asc", "desc"}}

\* Content of canales.json.
JsonFiles ==
  {[kind |-> k, items |-> <<>>] : k \in {"missing", "badjson", "notarray"}}
    \cup {[kind |-> "array", items |-> c] : c \in Catalogs}

\* ------------------------------------------------------------ HTTP outcomes
ValidBody == Magic \o <<"\n">> \o Rep("x", 22)

Bodies ==
  {<<>>,
   <<"o", "k">>,
   ValidBody,
   Magic \o <<"\n">> \o Rep("x", 21),
   <<"\n", " ", "\n", "\t">> \o Magic \o <<"\r", "\n">> \o Rep("x", 20),
   <<" ">> \o Magic \o Rep(" ", 22),
   Magic \o Rep("x", 23),
   Magic \o <<" ", "#">> \o Rep("x", 21),
   Rep("x", 22) \o <<"\n">> \o Magic,
   Rep(" ", 30),
   Rep("x", 30)}

Statuses == {199, 200, 299, 300, 404}

NoOutcome == [kind |-> "none", status |-> 0, body |-> <<>>]
ErrorOutcome == [kind |-> "error", status |-> 0, body |-> <<>>]
Response(st, b) == [kind |-> "response", status |-> st, body |-> b]

\* Every outcome of axios.get: a rejection (transport error, timeout, response
\* larger than maxContentLength) or a response.
AllOutcomes ==
  {ErrorOutcome} \cup {Response(st, b) : st \in Statuses, b \in Bodies}

\* What axios.get can produce for a url: a string that is not a URL gives no
\* response (the client rejects it, or fails to connect).
OutcomesOf(url) == IF url = UrlNotAUrl THEN {ErrorOutcome} ELSE AllOutcomes

\* The outcomes the pipeline distinguishes.
MainOutcomes == {ErrorOutcome, Response(200, ValidBody)}

\* ------------------------------------------------------------------- prober
\* The guard without its typeof test.
GuardRejectsFalsyOnly(url) == url \in {"", UrlNull}

\* The guard of checkStreamStatus: !url || typeof url !== "string".
GuardRejects(url) == url \in {"", UrlNull} \/ url \in {UrlNull, UrlNumber}

\* The checks with the upper status bound off by one (> 300).
ContentValidStatusOffByOne(outcome) ==
  IF outcome.kind # "response" THEN FALSE
  ELSE IF outcome.status < 200 \/ outcome.status > 300 THEN FALSE
  ELSE IF outcome.body = <<>> \/ Len(outcome.body) < MIN_CONTENT_LENGTH THEN FALSE
  ELSE LET contentLines == Split(Trim(outcome.body))
       IN  IF Len(contentLines) = 0 \/ Trim(contentLines[1]) # Magic
           THEN FALSE
           ELSE TRUE

\* The checks of checkStreamStatus on the outcome of axios.get.
ContentValid(outcome) ==
  IF outcome.kind # "response" THEN FALSE
  ELSE IF outcome.status < 200 \/ outcome.status >= 300 THEN FALSE
  ELSE IF outcome.body = <<>> \/ Len(outcome.body) < MIN_CONTENT_LENGTH THEN FALSE
  ELSE LET contentLines == Split(Trim(outcome.body))
       IN  IF Len(contentLines) = 0 \/ Trim(contentLines[1]) # Magic
           THEN FALSE
           ELSE TRUE

checkStreamStatus(url, outcome) ==
  IF GuardRejects(url) THEN FALSE ELSE ContentValid(outcome)

\* generarLineaM3U: the pieces of the template string.
generarLineaM3U(canal) ==
  <<"#EXTINF:-1 tvg-logo=\"",
    IF canal.icon = "absent" THEN "undefined" ELSE canal.icon,
    "\",", canal.title, "\n", canal.url>>

BoolStr(b) == IF b THEN "true" ELSE "false"

\* The spread written after the verdict, { active: isActive, ...canal }: a
\* flag already in the record wins.
AnnotateKeepStored(canal, isActive) ==
  IF canal.active = "absent" THEN [canal EXCEPT !.active = BoolStr(isActive)]
  ELSE canal

\* { ...canal, active: isActive }
Annotate(canal, isActive) == [canal EXCEPT !.active = BoolStr(isActive)]

\* The entry pushed to canalesCaidosLog.
LogEntry(canal) == [id |-> canal.id, title |-> canal.title, url |-> canal.url]

\* -------------------------------------------------------------------- state
VARIABLES
  jsonFile,             \* content of canales.json
  logFile,              \* content of canales_caidos.log
  m3uFile,              \* content of channels.m3u
  pc,                   \* position of analizarCanales
  canales,              \* the parsed catalog
  probe,                \* per array position: state of the probe's promise
  outcome,              \* per array position: what axios.get produced
  value,                \* per array position: the value the promise resolved to
  canalesCaidosLog,     \* down entries, as pushed
  canalesM3U,           \* channel records found active, as pushed
  canalesActualizados,  \* result of Promise.all
  httpCalls,            \* the calls of axios.get, in order
  console,              \* console.log / console.error lines, in order
  attempted,            \* the sinks fs.writeFile was called for
  run,                  \* number of the current run of the program
  prev                  \* what the previous run printed and left as playlist

vars == <<jsonFile, logFile, m3uFile, pc, canales, probe, outcome, value,
          canalesCaidosLog, canalesM3U, canalesActualizados, httpCalls,
          console, attempted, run, prev>>

Undefined == [kind |-> "undefined", items |-> <<>>]

AbsentFile == [kind |-> "absent", entries |-> <<>>]
OldFile == [kind |-> "old", entries |-> <<>>]
WrittenFile(entries) == [kind |-> "written", entries |-> entries]

Line(msg, id, title) == [msg |-> msg, id |-> id, title |-> title]

N == Len(canales.items)

NoHistory == [console |-> <<>>, m3uFile |-> AbsentFile]

InitWith(files) ==
  /\ jsonFile \in files
  /\ logFile \in {AbsentFile, OldFile}
  /\ m3uFile = logFile
  /\ pc = "start"
  /\ canales = Undefined
  /\ probe = <<>>
  /\ outcome = <<>>
  /\ value = <<>>
  /\ canalesCaidosLog = <<>>
  /\ canalesM3U = <<>>
  /\ canalesActualizados = <<>>
  /\ httpCalls = <<>>
  /\ console = <<>>
  /\ attempted = {}
  /\ run = 1
  /\ prev = NoHistory

Init == InitWith(JsonFiles)

\* --------------------------------------------------------------- operations
\* fs.readFile and JSON.parse inside the try; the catch reports and returns.
ReadCatalog ==
  /\ pc = "start"
  /\ IF jsonFile.kind \in {"missing", "badjson"}
     THEN /\ console' = Append(console, Line("ERROR FATAL", 0, ""))
          /\ pc' = "fatal"
          /\ UNCHANGED canales
     ELSE /\ canales' = jsonFile
          /\ pc' = "parsed"
          /\ UNCHANGED console
  /\ UNCHANGED <<run, prev>>
  /\ UNCHANGED <<jsonFile, logFile, m3uFile, probe, outcome, value,
                 canalesCaidosLog, canalesM3U, canalesActualizados, httpCalls,
                 attempted>>

\* What the synchronous part of the callback leaves for array position i:
\* reading canal.url of null throws (promise rejected); a url the guard
\* rejects makes checkStreamStatus return false at once; otherwise axios.get
\* has been called and the probe waits for it.
Launched(item) ==
  IF item.type = "null" THEN "rejected"
  ELSE IF GuardRejects(item.url) THEN "resolved"
  ELSE "inflight"

\* The positions, in order, of the items for which axios.get is called.
RECURSIVE CallsOf(_, _)
CallsOf(items, i) ==
  IF i > Len(items) THEN <<>>
  ELSE (IF Launched(items[i]) = "inflight"
        THEN <<[idx |-> i, url |-> items[i].url]>> ELSE <<>>)
       \o CallsOf(items, i + 1)

\* canales.map(async (canal) => ...): every callback runs up to its first
\* await.  canales.map of a value that is not an array throws.
LaunchProbes ==
  /\ pc = "parsed"
  /\ IF canales.kind # "array"
     THEN /\ pc' = "crashed"
          /\ UNCHANGED <<probe, outcome, value, httpCalls>>
     ELSE /\ pc' = "awaiting"
          /\ probe' = [i \in 1..N |-> Launched(canales.items[i])]
          /\ outcome' = [i \in 1..N |-> NoOutcome]
          /\ value' = [i \in 1..N |-> NullItem]
          /\ httpCalls' = CallsOf(canales.items, 1)
  /\ UNCHANGED <<run, prev>>
  /\ UNCHANGED <<jsonFile, logFile, m3uFile, canales, canalesCaidosLog,
                 canalesM3U, canalesActualizados, console, attempted>>

\* The callback with the push to canalesCaidosLog outside the else.
SettlePushAlways(i, isActive) ==
  LET canal == canales.items[i] IN
  /\ console' = Append(console,
        Line(IF isActive THEN "ACTIVO" ELSE "INACTIVO", canal.id, canal.title))
  /\ IF isActive
     THEN canalesM3U' = Append(canalesM3U, canal)
     ELSE UNCHANGED canalesM3U
  /\ canalesCaidosLog' = Append(canalesCaidosLog, LogEntry(canal))
  /\ value' = [value EXCEPT ![i] = Annotate(canal, isActive)]
  /\ probe' = [probe EXCEPT ![i] = "fulfilled"]

\* The callback after `await checkStreamStatus(canal.url)`: the status line,
\* the push to one of the two lists, and the annotated record.
Settle(i, isActive) ==
  LET canal == canales.items[i] IN
  /\ console' = Append(console,
        Line(IF isActive THEN "ACTIVO" ELSE "INACTIVO", canal.id, canal.title))
  /\ IF isActive
     THEN /\ canalesM3U' = Append(canalesM3U, canal)
          /\ UNCHANGED canalesCaidosLog
     ELSE /\ canalesCaidosLog' = Append(canalesCaidosLog, LogEntry(canal))
          /\ UNCHANGED canalesM3U
  /\ value' = [value EXCEPT ![i] = Annotate(canal, isActive)]
  /\ probe' = [probe EXCEPT ![i] = "fulfilled"]

\* A probe whose url the guard rejected resumes in the microtask queue, in the
\* order the callbacks were started.
ResumeRejected(i) ==
  /\ pc \in {"awaiting", "crashed"}
  /\ i \in 1..N
  /\ probe[i] = "resolved"
  /\ \A j \in 1..(i - 1) : probe[j] # "resolved"
  /\ Settle(i, checkStreamStatus(canales.items[i].url, NoOutcome))
  /\ UNCHANGED <<run, prev>>
  /\ UNCHANGED <<jsonFile, logFile, m3uFile, pc, canales, outcome,
                 canalesActualizados, httpCalls, attempted>>

\* Respond where a failed probe cancels the probes still in flight.
RespondCancelSiblings(i, o) ==
  /\ pc \in {"awaiting", "crashed"}
  /\ i \in 1..N
  /\ probe[i] = "inflight"
  /\ \A j \in 1..N : probe[j] # "resolved"
  /\ o \in OutcomesOf(canales.items[i].url)
  /\ outcome' = [outcome EXCEPT ![i] = o]
  /\ LET isActive == checkStreamStatus(canales.items[i].url, o)
         canal == canales.items[i]
     IN  /\ console' = Append(console,
               Line(IF isActive THEN "ACTIVO" ELSE "INACTIVO", canal.id, canal.title))
         /\ IF isActive
            THEN /\ canalesM3U' = Append(canalesM3U, canal)
                 /\ UNCHANGED canalesCaidosLog
            ELSE /\ canalesCaidosLog' = Append(canalesCaidosLog, LogEntry(canal))
                 /\ UNCHANGED canalesM3U
         /\ value' = [value EXCEPT ![i] = Annotate(canal, isActive)]
         /\ probe' = [j \in 1..N |->
               IF j = i THEN "fulfilled"
               ELSE IF o.kind = "error" /\ probe[j] = "inflight" THEN "cancelled"
               ELSE probe[j]]
  /\ UNCHANGED <<run, prev>>
  /\ UNCHANGED <<jsonFile, logFile, m3uFile, pc, canales,
                 canalesActualizados, httpCalls, attempted>>

\* Respond with one retry: a first rejection of axios.get makes
\* checkStreamStatus call axios.get again.
RespondRetry(i, o) ==
  /\ pc \in {"awaiting", "crashed"}
  /\ i \in 1..N
  /\ probe[i] = "inflight"
  /\ \A j \in 1..N : probe[j] # "resolved"
  /\ o \in OutcomesOf(canales.items[i].url)
  /\ IF o.kind = "error" /\ Cardinality({k \in 1..Len(httpCalls) : httpCalls[k].idx = i}) < 2
     THEN /\ httpCalls' = Append(httpCalls, [idx |-> i, url |-> canales.items[i].url])
          /\ UNCHANGED <<outcome, value, probe, console, canalesCaidosLog, canalesM3U>>
     ELSE /\ outcome' = [outcome EXCEPT ![i] = o]
          /\ Settle(i, checkStreamStatus(canales.items[i].url, o))
          /\ UNCHANGED httpCalls
  /\ UNCHANGED <<run, prev>>
  /\ UNCHANGED <<jsonFile, logFile, m3uFile, pc, canales,
                 canalesActualizados, attempted>>

\* Respond without the try/catch of checkStreamStatus: a rejection of
\* axios.get rejects the probe's promise.
RespondNoCatch(i, o) ==
  /\ pc \in {"awaiting", "crashed"}
  /\ i \in 1..N
  /\ probe[i] = "inflight"
  /\ \A j \in 1..N : probe[j] # "resolved"
  /\ o \in OutcomesOf(canales.items[i].url)
  /\ outcome' = [outcome EXCEPT ![i] = o]
  /\ IF o.kind = "error"
     THEN /\ probe' = [probe EXCEPT ![i] = "rejected"]
          /\ UNCHANGED <<value, console, canalesCaidosLog, canalesM3U>>
     ELSE Settle(i, checkStreamStatus(canales.items[i].url, o))
  /\ UNCHANGED <<run, prev>>
  /\ UNCHANGED <<jsonFile, logFile, m3uFile, pc, canales,
                 canalesActualizados, httpCalls, attempted>>

\* axios.get of position i settles with outcome o, in any order among the
\* probes in flight, after the microtask queue has drained.
Respond(i, o) ==
  /\ pc \in {"awaiting", "crashed"}
  /\ i \in 1..N
  /\ probe[i] = "inflight"
  /\ \A j \in 1..N : probe[j] # "resolved"
  /\ o \in OutcomesOf(canales.items[i].url)
  /\ outcome' = [outcome EXCEPT ![i] = o]
  /\ Settle(i, checkStreamStatus(canales.items[i].url, o))
  /\ UNCHANGED <<run, prev>>
  /\ UNCHANGED <<jsonFile, logFile, m3uFile, pc, canales,
                 canalesActualizados, httpCalls, attempted>>

\* The join returning on the first negative verdict.
JoinAllEarly ==
  /\ pc = "awaiting"
  /\ \/ \A i \in 1..N : probe[i] = "fulfilled"
     \/ \E i \in 1..N : probe[i] = "fulfilled" /\ value[i].active = "false"
  /\ \A i \in 1..N : probe[i] # "rejected"
  /\ canalesActualizados' = [i \in 1..N |-> value[i]]
  /\ pc' = "writeJson"
  /\ UNCHANGED <<run, prev>>
  /\ UNCHANGED <<jsonFile, logFile, m3uFile, canales, probe, outcome, value,
                 canalesCaidosLog, canalesM3U, httpCalls, console, attempted>>

\* The value of the channel whose status line is the k-th one.
ValueByCompletion(k) ==
  value[CHOOSE i \in 1..N : canales.items[i].id = console[k].id]

\* The join collecting the values in completion order.
JoinAllByCompletion ==
  /\ pc = "awaiting"
  /\ \A i \in 1..N : probe[i] = "fulfilled"
  /\ canalesActualizados' = [k \in 1..N |-> ValueByCompletion(k)]
  /\ pc' = "writeJson"
  /\ UNCHANGED <<run, prev>>
  /\ UNCHANGED <<jsonFile, logFile, m3uFile, canales, probe, outcome, value,
                 canalesCaidosLog, canalesM3U, httpCalls, console, attempted>>

\* Promise.all: fulfilled with the values by position once every promise is.
JoinAll ==
  /\ pc = "awaiting"
  /\ \A i \in 1..N : probe[i] = "fulfilled"
  /\ canalesActualizados' = [i \in 1..N |-> value[i]]
  /\ pc' = "writeJson"
  /\ UNCHANGED <<run, prev>>
  /\ UNCHANGED <<jsonFile, logFile, m3uFile, canales, probe, outcome, value,
                 canalesCaidosLog, canalesM3U, httpCalls, console, attempted>>

\* Promise.all rejects as soon as one promise is rejected; the rejection
\* leaves analizarCanales.
JoinRejected ==
  /\ pc = "awaiting"
  /\ \E i \in 1..N : probe[i] = "rejected"
  /\ pc' = "crashed"
  /\ UNCHANGED <<run, prev>>
  /\ UNCHANGED <<jsonFile, logFile, m3uFile, canales, probe, outcome, value,
                 canalesCaidosLog, canalesM3U, canalesActualizados, httpCalls,
                 console, attempted>>

\* 3.1 without its try/catch: a failed write leaves analizarCanales.
WriteJsonNoCatch(ok) ==
  /\ pc = "writeJson"
  /\ attempted' = attempted \cup {"json"}
  /\ IF ok
     THEN /\ jsonFile' = [kind |-> "array", items |-> canalesActualizados]
          /\ console' = Append(console, Line("JSON actualizado", 0, ""))
          /\ pc' = "writeLog"
     ELSE /\ UNCHANGED <<jsonFile, console>>
          /\ pc' = "crashed"
  /\ UNCHANGED <<run, prev>>
  /\ UNCHANGED <<logFile, m3uFile, canales, probe, outcome, value,
                 canalesCaidosLog, canalesM3U, canalesActualizados, httpCalls>>

\* 3.1: the catalog; ok is whether fs.writeFile succeeds.
WriteJson(ok) ==
  /\ pc = "writeJson"
  /\ attempted' = attempted \cup {"json"}
  /\ IF ok
     THEN /\ jsonFile' = [kind |-> "array", items |-> canalesActualizados]
          /\ console' = Append(console, Line("JSON actualizado", 0, ""))
     ELSE /\ UNCHANGED jsonFile
          /\ console' = Append(console, Line("Error JSON", 0, ""))
  /\ pc' = "writeLog"
  /\ UNCHANGED <<run, prev>>
  /\ UNCHANGED <<logFile, m3uFile, canales, probe, outcome, value,
                 canalesCaidosLog, canalesM3U, canalesActualizados, httpCalls>>

\* 3.2 without the test of canalesCaidosLog.length.
WriteLogAlways(ok) ==
  /\ pc = "writeLog"
  /\ attempted' = attempted \cup {"log"}
  /\ IF ok
     THEN /\ logFile' = WrittenFile(canalesCaidosLog)
          /\ console' = Append(console,
                Line("canales caidos", Len(canalesCaidosLog), ""))
     ELSE /\ UNCHANGED logFile
          /\ console' = Append(console, Line("Error LOG", 0, ""))
  /\ pc' = "writeM3U"
  /\ UNCHANGED <<run, prev>>
  /\ UNCHANGED <<jsonFile, m3uFile, canales, probe, outcome, value,
                 canalesCaidosLog, canalesM3U, canalesActualizados, httpCalls>>

\* 3.2: the down-log, only when canalesCaidosLog is not empty.
WriteLog(ok) ==
  /\ pc = "writeLog"
  /\ IF Len(canalesCaidosLog) > 0
     THEN /\ attempted' = attempted \cup {"log"}
          /\ IF ok
             THEN /\ logFile' = WrittenFile(canalesCaidosLog)
                  /\ console' = Append(console,
                        Line("canales caidos", Len(canalesCaidosLog), ""))
             ELSE /\ UNCHANGED logFile
                  /\ console' = Append(console, Line("Error LOG", 0, ""))
     ELSE /\ console' = Append(console, Line("Todos activos", 0, ""))
          /\ UNCHANGED <<attempted, logFile>>
  /\ pc' = "writeM3U"
  /\ UNCHANGED <<run, prev>>
  /\ UNCHANGED <<jsonFile, m3uFile, canales, probe, outcome, value,
                 canalesCaidosLog, canalesM3U, canalesActualizados, httpCalls>>

\* The filter of 3.3: canal.active === true, on the records of canalesM3U.
ActiveIsTrue(canal) == canal.active = "true"

RECURSIVE MapM3U(_)
MapM3U(s) ==
  IF s = <<>> THEN <<>> ELSE <<generarLineaM3U(Head(s))>> \o MapM3U(Tail(s))

m3uEntries(list) == MapM3U(SelectSeq(list, ActiveIsTrue))

\* 3.3 without the test of canalesM3U.length.
WriteM3UAlways(ok) ==
  /\ pc = "writeM3U"
  /\ attempted' = attempted \cup {"m3u"}
  /\ IF ok
     THEN /\ m3uFile' = WrittenFile(m3uEntries(canalesM3U))
          /\ console' = Append(console,
                Line("M3U generado", Len(canalesM3U), ""))
     ELSE /\ UNCHANGED m3uFile
          /\ console' = Append(console, Line("Error M3U", 0, ""))
  /\ pc' = "done"
  /\ UNCHANGED <<run, prev>>
  /\ UNCHANGED <<jsonFile, logFile, canales, probe, outcome, value,
                 canalesCaidosLog, canalesM3U, canalesActualizados, httpCalls>>

\* 3.3: the playlist, only when canalesM3U is not empty.
WriteM3U(ok) ==
  /\ pc = "writeM3U"
  /\ IF Len(canalesM3U) > 0
     THEN /\ attempted' = attempted \cup {"m3u"}
          /\ IF ok
             THEN /\ m3uFile' = WrittenFile(m3uEntries(canalesM3U))
                  /\ console' = Append(console,
                        Line("M3U generado", Len(canalesM3U), ""))
             ELSE /\ UNCHANGED m3uFile
                  /\ console' = Append(console, Line("Error M3U", 0, ""))
     ELSE /\ console' = Append(console, Line("No se genero M3U", 0, ""))
          /\ UNCHANGED <<attempted, m3uFile>>
  /\ pc' = "done"
  /\ UNCHANGED <<run, prev>>
  /\ UNCHANGED <<jsonFile, logFile, canales, probe, outcome, value,
                 canalesCaidosLog, canalesM3U, canalesActualizados, httpCalls>>

Resume == \E i \in 1..MaxChannels : ResumeRejected(i)
RespondMain == \E i \in 1..MaxChannels : \E o \in MainOutcomes : Respond(i, o)
RespondAny == \E i \in 1..MaxChannels : \E o \in AllOutcomes : Respond(i, o)
WriteJsonStep == \E ok \in BOOLEAN : WriteJson(ok)
WriteLogStep == \E ok \in BOOLEAN : WriteLog(ok)
WriteM3UStep == \E ok \in BOOLEAN : WriteM3U(ok)

Next ==
  \/ ReadCatalog
  \/ LaunchProbes
  \/ Resume
  \/ RespondMain
  \/ JoinAll
  \/ JoinRejected
  \/ WriteJsonStep
  \/ WriteLogStep
  \/ WriteM3UStep

Spec == Init /\ [][Next]_vars

\* Every callback that is ready runs, and every HTTP call in flight settles
\* (axios.get has a timeout).
Fairness ==
  /\ WF_vars(ReadCatalog)
  /\ WF_vars(LaunchProbes)
  /\ WF_vars(Resume)
  /\ \A i \in 1..MaxChannels : WF_vars(\E o \in MainOutcomes : Respond(i, o))
  /\ WF_vars(JoinAll)
  /\ WF_vars(JoinRejected)
  /\ WF_vars(WriteJsonStep)
  /\ WF_vars(WriteLogStep)
  /\ WF_vars(WriteM3UStep)

\* A first run: no output file yet, no active flag stored in the catalog.
InitLive ==
  /\ InitWith({f \in JsonFiles :
                 \A i \in 1..Len(f.items) : f.items[i].active = "absent"})
  /\ logFile = AbsentFile

SpecLive == InitLive /\ [][Next]_vars /\ Fairness

\* The program is run again (analizarCanales() of a new process): the files
\* stay, everything else starts afresh.
Rerun ==
  /\ pc = "done"
  /\ run < MaxRuns
  /\ run' = run + 1
  /\ prev' = [console |-> console, m3uFile |-> m3uFile]
  /\ pc' = "start"
  /\ canales' = Undefined
  /\ probe' = <<>>
  /\ outcome' = <<>>
  /\ value' = <<>>
  /\ canalesCaidosLog' = <<>>
  /\ canalesM3U' = <<>>
  /\ canalesActualizados' = <<>>
  /\ httpCalls' = <<>>
  /\ console' = <<>>
  /\ attempted' = {}
  /\ UNCHANGED <<jsonFile, logFile, m3uFile>>

NextRerun ==
  \/ ReadCatalog
  \/ LaunchProbes
  \/ Resume
  \/ RespondMain
  \/ JoinAll
  \/ JoinRejected
  \/ WriteJsonStep
  \/ WriteLogStep
  \/ WriteM3UStep
  \/ Rerun

\* Consecutive runs over the files the previous run left.
SpecRerun == Init /\ [][NextRerun]_vars

\* The prober on its own: catalogs of one element, every outcome of axios.get.
InitProbe ==
  InitWith({[kind |-> "array", items |-> c] :
              c \in CatalogsOf(1, "asc")})

NextProbe ==
  \/ ReadCatalog
  \/ LaunchProbes
  \/ Resume
  \/ RespondAny
  \/ JoinAll
  \/ JoinRejected
  \/ WriteJsonStep
  \/ WriteLogStep
  \/ WriteM3UStep

SpecProbe == InitProbe /\ [][NextProbe]_vars

\* ------------------------------------------------------------------ claims
HasLine(msg) == \E k \in 1..Len(console) : console[k].msg = msg

\* The catalog is an array whose elements are all channel records.
AllRecords ==
  /\ canales.kind = "array"
  /\ \A i \in 1..N : canales.items[i].type = "object"

Joined == pc \in {"writeJson", "writeLog", "writeM3U", "done"}

Called(i) == \E k \in 1..Len(httpCalls) : httpCalls[k].idx = i

PosOfId(id) == CHOOSE i \in 1..N : canales.items[i].id = id
PosOfTitle(t) == CHOOSE i \in 1..N : canales.items[i].title = t

\* C1: whenever the catalog has been written, it has the length of the input
\* catalog and its i-th record carries the identifier of the i-th input
\* record, whatever the order in which the probes completed.
C1_CatalogOrderPreserved ==
  HasLine("JSON actualizado") =>
    /\ jsonFile.kind = "array"
    /\ Len(jsonFile.items) = Len(canales.items)
    /\ \A i \in 1..Len(canales.items) :
          jsonFile.items[i].id = canales.items[i].id

\* Two probes in flight, the second channel's completed first, catalog written.
C1_Witness ==
  /\ HasLine("JSON actualizado")
  /\ N = 2
  /\ Len(httpCalls) = 2
  /\ console[1].id = canales.items[2].id
  /\ jsonFile.items[1].id = canales.items[1].id

\* C2: the entries of a written playlist are in the order of the catalog.
C2_PlaylistInCatalogOrder ==
  m3uFile.kind = "written" =>
    \A k, l \in 1..Len(m3uFile.entries) :
       k < l => PosOfTitle(m3uFile.entries[k][4]) < PosOfTitle(m3uFile.entries[l][4])

\* C3: the entries of a written down-log are in the order of the catalog.
C3_DownLogInCatalogOrder ==
  logFile.kind = "written" =>
    \A k, l \in 1..Len(logFile.entries) :
       k < l => PosOfId(logFile.entries[k].id) < PosOfId(logFile.entries[l].id)

InPlaylist(c) ==
  /\ m3uFile.kind = "written"
  /\ \E k \in 1..Len(m3uFile.entries) : m3uFile.entries[k] = generarLineaM3U(c)

InDownLog(c) ==
  /\ logFile.kind = "written"
  /\ \E k \in 1..Len(logFile.entries) : logFile.entries[k].id = c.id

NoWriteFailed ==
  ~HasLine("Error JSON") /\ ~HasLine("Error LOG") /\ ~HasLine("Error M3U")

\* C4: after a run whose writes all succeeded, a channel is in the playlist
\* iff its verdict is positive and in the down-log iff its verdict is negative.
C4_ExactlyOneOutput ==
  (pc = "done" /\ NoWriteFailed) =>
    \A i \in 1..Len(canalesActualizados) :
       LET c == canalesActualizados[i] IN
         /\ InPlaylist(c) <=> c.active = "true"
         /\ InDownLog(c) <=> c.active = "false"

\* The first non-blank line of a body, trimmed: from the first character of
\* the body that is not whitespace to the last such character before the next
\* line feed.  <<>> when the body has no such character.
FirstNonBlankLine(body) ==
  LET solid == {p \in 1..Len(body) : body[p] \notin Whitespace} IN
  IF solid = {} THEN <<>>
  ELSE LET first == CHOOSE p \in solid : \A q \in solid : p <= q
           feeds == {p \in first..Len(body) : body[p] = "\n"}
           stop  == IF feeds = {} THEN Len(body)
                    ELSE (CHOOSE p \in feeds : \A q \in feeds : p <= q) - 1
           last  == CHOOSE p \in solid : p <= stop /\ \A q \in solid : q <= stop => q <= p
       IN  SubSeq(body, first, last)

\* The three conditions of Strategy B.
PositiveOutcome(o) ==
  /\ o.kind = "response"
  /\ o.status \in 200..299
  /\ Len(o.body) >= 30
  /\ FirstNonBlankLine(o.body) = Magic

\* C5: the verdict of a probe is positive iff the status is in [200,300), the
\* body has at least 30 characters and its first non-blank line, trimmed, is
\* #EXTM3U; it is negative in every other case.
C5_VerdictIffThreeChecks ==
  \A i \in DOMAIN probe :
     probe[i] = "fulfilled" =>
        (value[i].active = "true" <=> PositiveOutcome(outcome[i]))

\* A positive verdict on a body that opens with blank lines.
C5_Witness ==
  \E i \in DOMAIN probe :
     /\ probe[i] = "fulfilled"
     /\ value[i].active = "true"
     /\ outcome[i].status = 299
     /\ Head(outcome[i].body) = "\n"

MalformedUrls == {"", UrlNull, UrlNumber, UrlNotAUrl}

\* C6 as stated: a channel whose url is malformed (empty, null, not a string,
\* or a string that is not a URL) is never the subject of an HTTP call and its
\* verdict is negative.
C6_MalformedNeverCalled ==
  \A i \in DOMAIN probe :
     (canales.items[i].type = "object" /\ canales.items[i].url \in MalformedUrls) =>
        /\ ~Called(i)
        /\ probe[i] = "fulfilled" => value[i].active = "false"

\* C6 amended: a channel whose url is empty, null or not a string is never the
\* subject of an HTTP call and its verdict is negative; every other url, well
\* formed or not, is handed to axios.get.
C6_GuardedNeverCalled ==
  \A i \in DOMAIN probe :
     canales.items[i].type = "object" =>
        IF canales.items[i].url \in {"", UrlNull, UrlNumber}
        THEN /\ ~Called(i)
             /\ probe[i] # "inflight"
             /\ probe[i] = "fulfilled" => value[i].active = "false"
        ELSE Called(i)

\* A run that ended with a channel whose url is not a string, next to a
\* channel that was probed over HTTP.
C6_Witness ==
  /\ pc = "done"
  /\ \E i \in DOMAIN probe :
        /\ canales.items[i].url = UrlNumber
        /\ value[i].active = "false"
  /\ Len(httpCalls) = 1

\* C7: on a catalog of channel records no probe is ever rejected: every probe
\* that settles carries a boolean verdict, analizarCanales is not left by an
\* exception, and the joined catalog has a verdict for every channel.
C7_ProbingNeverRaises ==
  AllRecords =>
    /\ pc # "crashed"
    /\ \A i \in DOMAIN probe :
          /\ probe[i] # "rejected"
          /\ probe[i] = "fulfilled" => value[i].active \in {"true", "false"}
    /\ Joined =>
          /\ Len(canalesActualizados) = N
          /\ \A i \in 1..N : canalesActualizados[i].active \in {"true", "false"}

\* The joined catalog after one probe failed in transport and another channel
\* was found active.
C7_Witness ==
  /\ Joined
  /\ \E i, j \in 1..N :
        /\ outcome[i].kind = "error"
        /\ canalesActualizados[i].active = "false"
        /\ canalesActualizados[j].active = "true"

\* canales.json cannot be read, is not JSON, is not an array, or has an
\* element that is not a channel record.
Malformed(file) ==
  \/ file.kind \in {"missing", "badjson", "notarray"}
  \/ \E i \in 1..Len(file.items) : file.items[i].type = "null"

\* C8: when the catalog is unreadable or malformed the run reports the fatal
\* error or is left by the exception, and has no other effect: no probe is
\* launched (no HTTP call, no status line), the probes are never joined and
\* no sink is written.
C8_FatalWithoutSideEffects ==
  Malformed(jsonFile) =>
    /\ pc = "fatal" => HasLine("ERROR FATAL")
    /\ httpCalls = <<>>
    /\ ~HasLine("ACTIVO") /\ ~HasLine("INACTIVO")
    /\ ~Joined
    /\ attempted = {}

\* C9: a failed write is caught and reported and the run goes on to the next
\* sink: the catalog write is always attempted, the down-log and playlist
\* writes are attempted exactly when their lists are not empty, and a run
\* that attempted a write is never left by an exception.
C9_SinkWritesIndependent ==
  /\ pc = "crashed" => attempted = {}
  /\ pc \in {"writeLog", "writeM3U", "done"} =>
        /\ "json" \in attempted
        /\ HasLine("JSON actualizado") # HasLine("Error JSON")
  /\ pc \in {"writeM3U", "done"} =>
        /\ "log" \in attempted <=> Len(canalesCaidosLog) > 0
        /\ "log" \in attempted => (HasLine("canales caidos") # HasLine("Error LOG"))
  /\ pc = "done" =>
        /\ "m3u" \in attempted <=> Len(canalesM3U) > 0
        /\ "m3u" \in attempted => (HasLine("M3U generado") # HasLine("Error M3U"))

\* The catalog write failed, the down-log write failed, the playlist was
\* still written.
C9_Witness ==
  /\ pc = "done"
  /\ HasLine("Error JSON")
  /\ HasLine("Error LOG")
  /\ m3uFile.kind = "written"

\* C10: a written playlist has at least one entry after its header.
C10_WrittenPlaylistHasEntry ==
  m3uFile.kind = "written" => Len(m3uFile.entries) >= 1

\* The join has returned and no record of the result is inactive.
NoneInactive ==
  /\ Joined
  /\ \A i \in 1..Len(canalesActualizados) : canalesActualizados[i].active = "true"

\* C11: in a run where no channel was found inactive no step changes the
\* down-log file or calls fs.writeFile for it: a log that existed keeps its
\* content.
C11_DownLogUntouched ==
  [][NoneInactive => (logFile' = logFile /\ ("log" \in attempted' <=> "log" \in attempted))]_vars

\* A finished run over a catalog whose channels are all active, with a
\* down-log that existed before the run.
C11_Witness ==
  /\ pc = "done"
  /\ NoneInactive
  /\ N >= 1
  /\ logFile = OldFile
  /\ "log" \notin attempted

\* The status line of the channel says it was found active.
SaidActive(canal) ==
  \E k \in 1..Len(console) : console[k] = Line("ACTIVO", canal.id, canal.title)

\* C12: a record of the written catalog is the input record with its active
\* field set to this run's verdict (the one the status line shows); the other
\* fields are those of the input and a stored flag is replaced.
C12_OnlyActiveChanges ==
  HasLine("JSON actualizado") =>
    \A i \in 1..Len(jsonFile.items) :
       LET out == jsonFile.items[i]
           in == canales.items[i]
       IN  /\ out.type = in.type
           /\ out.id = in.id
           /\ out.title = in.title
           /\ out.url = in.url
           /\ out.icon = in.icon
           /\ out.active = IF SaidActive(in) THEN "true" ELSE "false"

\* A written catalog in which a flag stored as true was replaced by false and
\* a flag stored as false was replaced by true.
C12_Witness ==
  /\ HasLine("JSON actualizado")
  /\ \E i, j \in 1..Len(jsonFile.items) :
        /\ canales.items[i].active = "true" /\ jsonFile.items[i].active = "false"
        /\ canales.items[j].active = "false" /\ jsonFile.items[j].active = "true"

EmptyCatalog == canales.kind = "array" /\ canales.items = <<>>

\* C13: on an empty catalog no probe is launched, neither the down-log nor
\* the playlist is written, the catalog write is attempted and the catalog it
\* writes is empty.
C13_EmptyCatalog ==
  EmptyCatalog =>
    /\ httpCalls = <<>>
    /\ ~HasLine("ACTIVO") /\ ~HasLine("INACTIVO")
    /\ attempted \subseteq {"json"}
    /\ logFile.kind # "written" /\ m3uFile.kind # "written"
    /\ pc = "done" => "json" \in attempted
    /\ HasLine("JSON actualizado") => jsonFile = [kind |-> "array", items |-> <<>>]

\* A finished run over the empty catalog that wrote the catalog.
C13_Witness ==
  /\ EmptyCatalog
  /\ pc = "done"
  /\ HasLine("JSON actualizado")
  /\ jsonFile.items = <<>>

\* C14: a second run that printed exactly what the first run printed (the
\* same verdicts in the same completion order, the same writes succeeding)
\* and wrote the playlist leaves the playlist the first run left.
C14_SamePlaylistOnRerun ==
  (run = 2 /\ pc = "done" /\ console = prev.console /\ HasLine("M3U generado")) =>
     m3uFile = prev.m3uFile

AllSettled == \A i \in DOMAIN probe : probe[i] = "fulfilled"

\* C15: no sink write is attempted, and the join does not return, while a
\* launched probe has not settled; the join returns a result for every
\* position.
C15_FanInBarrier ==
  /\ attempted # {} => AllSettled
  /\ Joined => (AllSettled /\ Len(canalesActualizados) = N)

\* The catalog write has been attempted after two HTTP probes, one of which
\* failed in transport.
C15_Witness ==
  /\ "json" \in attempted
  /\ Len(httpCalls) = 2
  /\ \E i \in DOMAIN outcome : outcome[i].kind = "error"
  /\ \E i \in DOMAIN outcome : outcome[i].kind = "response"

\* C16: while a probe has not settled the down-entry and playlist-entry
\* lists have no entry (they are built after the join).
C16_NoEntryBeforeJoin ==
  (\E i \in DOMAIN probe : probe[i] \in {"resolved", "inflight"}) =>
     (canalesCaidosLog = <<>> /\ canalesM3U = <<>>)

CallsFor(i) == Cardinality({k \in 1..Len(httpCalls) : httpCalls[k].idx = i})

StatusLinesFor(canal) ==
  Cardinality({k \in 1..Len(console) :
                 console[k].msg \in {"ACTIVO", "INACTIVO"} /\ console[k].id = canal.id})

\* C17: at most one call of axios.get and at most one status line per
\* channel; a channel has its status line exactly when its probe has settled;
\* after the join every channel has one status line and one verdict.
C17_ProbedExactlyOnce ==
  \A i \in DOMAIN probe :
     canales.items[i].type = "object" =>
        /\ CallsFor(i) <= 1
        /\ StatusLinesFor(canales.items[i]) = IF probe[i] = "fulfilled" THEN 1 ELSE 0
        /\ Joined =>
              /\ StatusLinesFor(canales.items[i]) = 1
              /\ Len(canalesActualizados) = N
              /\ canalesActualizados[i].active \in {"true", "false"}

\* A finished run with one channel rejected by the guard and one whose single
\* HTTP call failed.
C17_Witness ==
  /\ pc = "done"
  /\ N = 2
  /\ Len(httpCalls) = 1
  /\ \E i \in 1..N : outcome[i].kind = "error" /\ CallsFor(i) = 1
  /\ \E i \in 1..N : outcome[i].kind = "none" /\ StatusLinesFor(canales.items[i]) = 1

DownEntriesFor(id) ==
  Cardinality({k \in 1..Len(canalesCaidosLog) : canalesCaidosLog[k].id = id})

InactiveIn(records) ==
  Cardinality({i \in 1..Len(records) : records[i].active = "false"})

\* C19: after the join canalesCaidosLog has exactly one entry for every
\* position whose record is inactive and none for an active one; the number
\* reported, the number of entries of a written log and the number of
\* inactive records of a written catalog are all that number.
C19_DownEntriesMatchInactive ==
  Joined =>
    /\ \A i \in 1..N :
          DownEntriesFor(canales.items[i].id) =
             IF canalesActualizados[i].active = "false" THEN 1 ELSE 0
    /\ Len(canalesCaidosLog) = InactiveIn(canalesActualizados)
    /\ \A k \in 1..Len(console) :
          console[k].msg = "canales caidos" =>
             /\ console[k].id = InactiveIn(canalesActualizados)
             /\ Len(logFile.entries) = InactiveIn(canalesActualizados)
    /\ HasLine("JSON actualizado") =>
          InactiveIn(jsonFile.items) = Len(canalesCaidosLog)

\* The second channel settled first, active; the first settled inactive; the
\* log was written with its one entry.
C19_Witness ==
  /\ Joined
  /\ N = 2
  /\ console[1] = Line("ACTIVO", canales.items[2].id, canales.items[2].title)
  /\ canalesActualizados[1].active = "false"
  /\ logFile.kind = "written"
  /\ Len(logFile.entries) = 1

\* C18: once the catalog has been read as a sequence of channel records, and
\* given that every HTTP call in flight settles, the run reaches its end with
\* the catalog write attempted and every probe settled (none abandoned).
C18_RunTerminates ==
  (pc = "parsed" /\ AllRecords) ~> (pc = "done" /\ "json" \in attempted /\ AllSettled)

\* A finished run in which the first probe to settle failed in transport and
\* its sibling settled afterwards with a response.
C18_Witness ==
  /\ pc = "done"
  /\ AllRecords
  /\ N = 2
  /\ Len(httpCalls) = 2
  /\ console[1].msg = "INACTIVO"
  /\ outcome[PosOfId(console[1].id)].kind = "error"
  /\ console[2].msg = "ACTIVO"

====
